---- MODULE Spec2Model ----
(***************************************************************************)
(* ArtifactToolUpdater (vsts/cli/package/common/artifacttool_updater.py):  *)
(* the update-or-fetch workflow of the ArtifactTool binary.  Several CLI   *)
(* processes run get_latest_artifacttool concurrently; they share only the *)
(* directory tree <tmp>/ArtifactTool/{releases,temp}.                      *)
(***************************************************************************)
EXTENDS Integers, Sequences, FiniteSets, TLC

(* ---------------------------------------------------------------- bounds *)
\* calls of get_latest_artifacttool started in one behaviour, over all processes
MaxCalls == 2
\* members of the largest archive a server sends
MaxMembers == 2
\* characters of the longest name, runtime identifier and version of a release
MaxLen == 1
\* chunks of the longest body, bytes of the largest chunk, largest declared length
MaxChunks == 3
MaxChunkLen == 2
MaxDeclared == 4

\* the CLI processes: two, which call concurrently or one after the other
Procs == {1, 2}

(* ------------------------------------------------------------ the inputs *)
\* Python's None: os.environ.get of an unset variable, a lookup without result
None == "<None>"

\* values of VSTS_CLI_ARTIFACTTOOL_OVERRIDE_PATH
PathValues == {None, "/usr/local/bin/at"}
\* values of VSTS_CLI_ARTIFACTTOOL_OVERRIDE_URL
UrlValues == {None, "https://host/custom.zip"}
\* values of VSTS_CLI_ARTIFACTTOOL_OVERRIDE_VERSION
VersionValues == {None, "1.2.3"}

Environments == [path : PathValues, url : UrlValues, version : VersionValues]

\* the releases the lookup service can answer with
Releases ==
  { [uri |-> "https://host/tool.zip", name |-> "ArtifactTool", rid |-> "win-x64", version |-> "1.2.3"],
    [uri |-> "https://host/tool4.zip", name |-> "ArtifactTool", rid |-> "win-x64", version |-> "1.2.4"] }

\* what a failing lookup raises
LookupErrors == {"ConnectionError"}

(* ------------------------------------------------------- pure functions *)
\* os.path.join of two relative components
PathJoin(a, b) == a \o "/" \o b

TempDir == "/tmp"

_compute_artifact_root == PathJoin(TempDir, "ArtifactTool")

releases_root == PathJoin(_compute_artifact_root, "releases")

releases_temp_root == PathJoin(_compute_artifact_root, "temp")

\* "%s_%s" % (release.name, release.rid): the version left out of the id
_compute_id_NoVersion(release) == release.name \o "_" \o release.rid

\* "%s_%s_%s" % (release.name, release.rid, release.version)
_compute_id(release) == release.name \o "_" \o release.rid \o "_" \o release.version

\* str(uuid.uuid4()): the n-th identifier the generator hands out
Uuid4Str(n) == "uuid-" \o ToString(n)

(* ------------------------------------------- the download, lines 79-91 *)
Digits == <<"0", "1", "2", "3", "4", "5", "6", "7", "8", "9">>

IsDigit(c) == \E i \in 1..10 : Digits[i] = c

DigitVal(c) == (CHOOSE i \in 1..10 : Digits[i] = c) - 1

CharAt(s, i) == SubSeq(s, i, i)

\* str.strip(): leading and trailing blanks removed
RECURSIVE LStrip(_)
LStrip(s) == IF Len(s) > 0 /\ CharAt(s, 1) = " " THEN LStrip(SubSeq(s, 2, Len(s))) ELSE s

RECURSIVE RStrip(_)
RStrip(s) == IF Len(s) > 0 /\ CharAt(s, Len(s)) = " " THEN RStrip(SubSeq(s, 1, Len(s) - 1)) ELSE s

Strip(s) == RStrip(LStrip(s))

RECURSIVE DigitsValue(_)
DigitsValue(s) ==
  IF Len(s) = 0 THEN 0
  ELSE 10 * DigitsValue(SubSeq(s, 1, Len(s) - 1)) + DigitVal(CharAt(s, Len(s)))

\* int(text): an optional sign and decimal digits; anything else is a ValueError
ParseInt(text) ==
  LET t == Strip(text)
      signed == Len(t) > 0 /\ CharAt(t, 1) \in {"-", "+"}
      body == IF signed THEN SubSeq(t, 2, Len(t)) ELSE t
  IN IF Len(body) = 0 \/ \E i \in 1..Len(body) : ~IsDigit(CharAt(body, i))
     THEN [ok |-> FALSE, value |-> 0]
     ELSE [ok |-> TRUE,
           value |-> IF signed /\ CharAt(t, 1) = "-" THEN 0 - DigitsValue(body)
                     ELSE DigitsValue(body)]

\* a missing or unparsable Content-Length taken as a length of 1
ContentLength_Default(headers) ==
  IF headers = None THEN [raised |-> None, value |-> 1]
  ELSE IF ~ParseInt(Strip(headers)).ok THEN [raised |-> None, value |-> 1]
  ELSE [raised |-> None, value |-> ParseInt(Strip(headers)).value]

\* lines 81-82: headers['Content-Length'].strip(), then int(): the exception
\* raised, or None with the length
ContentLength(headers) ==
  IF headers = None THEN [raised |-> "KeyError", value |-> 0]
  ELSE IF ~ParseInt(Strip(headers)).ok THEN [raised |-> "ValueError", value |-> 0]
  ELSE [raised |-> None, value |-> ParseInt(Strip(headers)).value]

\* 100 * float(bytes_so_far)/float(content_length), kept as the exact quotient
\* num/den (the float rounding is monotone and exact to well below 1/den for
\* every size a buffer in memory can have)
SpinnerValue(bytes_so_far, content_length) ==
  [num |-> 100 * bytes_so_far, den |-> content_length]

\* the state of the loop of lines 85-91 before its first chunk; progress: what
\* spinner.step was called with, and the bytes read at each call
LoopStart == [bytes_so_far |-> 0, progress |-> <<>>, raised |-> None]

\* lines 88-91, one chunk of `chunk` bytes: an empty chunk is skipped, and the
\* division by a content length of 0 raises
LoopStep(st, chunk, content_length) ==
  IF chunk = 0 THEN st
  ELSE IF content_length = 0
       THEN [st EXCEPT !.bytes_so_far = @ + chunk, !.raised = "ZeroDivisionError"]
       ELSE [st EXCEPT !.bytes_so_far = @ + chunk,
                       !.progress = Append(@, [bytes_so_far |-> st.bytes_so_far + chunk,
                                               value |-> SpinnerValue(st.bytes_so_far + chunk,
                                                                      content_length)])]

\* lines 87-91 over the chunks iter_content yields, stopping where one raises
RECURSIVE DownloadLoop(_, _, _)
DownloadLoop(st, chunks, content_length) ==
  IF chunks = <<>> \/ st.raised # None THEN st
  ELSE DownloadLoop(LoopStep(st, Head(chunks), content_length), Tail(chunks), content_length)

(* ------------------------------------------------------- the file system *)
\* a directory: the archive (by its URI) and the scratch name it is extracted
\* from and under, the members extracted so far, the members of the archive,
\* and the entries the directory holds
DirNode(uri, by, n, total, entries) ==
  [uri |-> uri, by |-> by, n |-> n, total |-> total, entries |-> entries]

\* a directory made by os.makedirs
EmptyDir == DirNode("", "", 0, 0, 0)

\* os.makedirs(path) succeeding: path and its missing parent are created
Makedirs(f, path) ==
  [q \in (DOMAIN f) \cup {_compute_artifact_root, path} |->
     IF q \in DOMAIN f THEN f[q] ELSE EmptyDir]

\* every error of os.makedirs dropped, whether or not path is a directory
_mkdir_if_not_exist_SwallowsAll(f, path, oserror) ==
  IF path \in DOMAIN f \/ oserror THEN [fs |-> f, raised |-> None]
  ELSE [fs |-> Makedirs(f, path), raised |-> None]

\* lines 104-110: os.makedirs raises OSError when path exists, or when the
\* system refuses (oserror); the error is dropped when path is a directory
_mkdir_if_not_exist(f, path, oserror) ==
  IF path \in DOMAIN f THEN [fs |-> f, raised |-> None]
  ELSE IF oserror THEN [fs |-> f, raised |-> "OSError"]
  ELSE [fs |-> Makedirs(f, path), raised |-> None]

\* a check that never finds the directory
Exists_Never(f, path) == FALSE

\* os.path.exists(path)
Exists(f, path) == path \in DOMAIN f

\* os.rename putting src in the place of every dst that exists
OsRename_Replaces(f, src, dst, replaces) ==
  IF src \notin DOMAIN f THEN [fs |-> f, raised |-> "FileNotFoundError"]
  ELSE [fs |-> [q \in ((DOMAIN f) \ {src}) \cup {dst} |-> IF q = dst THEN f[src] ELSE f[q]],
        raised |-> None]

\* os.rename leaving src where it was
OsRename_Copies(f, src, dst, replaces) ==
  IF src \notin DOMAIN f THEN [fs |-> f, raised |-> "FileNotFoundError"]
  ELSE IF dst \in DOMAIN f /\ (f[dst].entries > 0 \/ ~replaces)
  THEN [fs |-> f, raised |-> "OSError"]
  ELSE [fs |-> [q \in (DOMAIN f) \cup {dst} |-> IF q = dst THEN f[src] ELSE f[q]],
        raised |-> None]

\* os.rename(src, dst) of directories: a missing src raises; a dst that exists
\* and holds an entry raises on every platform; a dst that exists and is empty
\* is replaced where rename(2) does so (replaces, POSIX) and raises where it
\* does not (Windows); otherwise src becomes dst
OsRename(f, src, dst, replaces) ==
  IF src \notin DOMAIN f THEN [fs |-> f, raised |-> "FileNotFoundError"]
  ELSE IF dst \in DOMAIN f /\ (f[dst].entries > 0 \/ ~replaces)
  THEN [fs |-> f, raised |-> "OSError"]
  ELSE [fs |-> [q \in ((DOMAIN f) \ {src}) \cup {dst} |-> IF q = dst THEN f[src] ELSE f[q]],
        raised |-> None]

\* ZipFile._extract_member of the next member into path, which it creates; a
\* member that is the archive's root directory itself ("./") adds no entry
ExtractInto(f, path, uri, by, total, hollow) ==
  LET adds == IF hollow THEN 0 ELSE 1
  IN IF path \in DOMAIN f
     THEN [f EXCEPT ![path] = [@ EXCEPT !.n = @ + 1, !.entries = @ + adds]]
     ELSE [q \in (DOMAIN f) \cup {path} |->
             IF q = path THEN DirNode(uri, by, 1, total, adds) ELSE f[q]]

\* a release directory a reader may use: every member of its archive is there
FullyExtracted(node) == node.n = node.total

\* the paths directly under root
Under(f, root) ==
  {q \in DOMAIN f : Len(q) > Len(root) + 1 /\ SubSeq(q, 1, Len(root) + 1) = root \o "/"}

(* ------------------------------------------------------------- the server *)
\* what requests.get(uri, stream=True) answers: the Content-Length header (None
\* when absent), the sizes of the chunks iter_content yields, and whether the
\* stream breaks after them
Response(cl, chunks, broken) == [cl |-> cl, chunks |-> chunks, broken |-> broken]

NoResponse == Response(None, <<>>, FALSE)

Responses ==
  { Response(None, <<2>>, FALSE),
    Response("abc", <<2>>, FALSE),
    Response("0", <<2>>, FALSE),
    Response("4", <<2>>, TRUE),
    Response(" 4 ", <<2, 0, 2>>, FALSE) }

\* what zipfile.ZipFile(content) finds in the body: whether it is a zip file,
\* its members, and whether these are only entries of its root directory ("./")
Archive(zipok, members, hollow) == [zipok |-> zipok, members |-> members, hollow |-> hollow]

NoArchive == Archive(FALSE, 0, FALSE)

Archives ==
  { Archive(FALSE, 0, FALSE), Archive(TRUE, 1, TRUE) }
  \cup { Archive(TRUE, m, FALSE) : m \in {0, MaxMembers} }

(* --------------------------------------------------------------- the state *)
VARIABLES
  pc,                \* per process: the line its call is at
  env,               \* per process: the three override variables of its environment
  release_uri,       \* per process: locals of _get_artifacttool
  release_id,
  release_dir,
  release_temp_dir,  \* per process: local of _update_artifacttool
  response,          \* per process: the response of requests.get
  bytes_so_far,      \* per process: the bytes the loop of lines 87-91 has read
  archive,           \* per process: the archive ZipFile has opened
  extracted,         \* per process: members extractall has written
  result,            \* per process: the path the finished call returned
  err,               \* per process: the exception the finished call raised
  ops,               \* per process: what the current call has done so far
  cached0,           \* per process: the release directories there when its call began
  fs,                \* the directories under <tmp>/ArtifactTool
  uuids,             \* identifiers uuid.uuid4() has handed out
  calls,             \* calls started
  issued,            \* the custom release ids made so far, each with its number of calls
  id_case,           \* two releases and the release ids and directories computed for them
  dl                 \* one download: its header, its chunks, the loop of lines 85-91

locals == <<env, release_uri, release_id, release_dir, release_temp_dir, response, bytes_so_far,
            archive, extracted, result, err, ops, cached0>>

\* the locals a step leaves alone when it only moves on, returns or raises
locals_kept == <<env, release_uri, release_id, release_dir, release_temp_dir, response,
                 bytes_so_far, archive, extracted, ops, cached0>>

\* the state of the two studies of single functions
pure == <<id_case, dl>>

vars == <<pc, locals, fs, uuids, calls, issued, pure>>

NoError == [type |-> None, msg |-> None]

NoOps == [lookup |-> 0, get |-> 0, extractall |-> 0, rename |-> 0]

NoEnv == [path |-> None, url |-> None, version |-> None]

\* no download under study
NoDownload == [cl |-> None, chunks |-> <<>>, at |-> "idle", content_length |-> 0, st |-> LoopStart]

NoRel == [uri |-> None, name |-> None, rid |-> None, version |-> None]

\* no pair of releases under study
NoIdCase == [a |-> NoRel, b |-> NoRel, at |-> "idle", id_a |-> None, id_b |-> None,
             dir_a |-> None, dir_b |-> None]

\* the state in which no process has made a call
FetchInit ==
  /\ pc = [p \in Procs |-> "idle"]
  /\ env = [p \in Procs |-> NoEnv]
  /\ release_uri = [p \in Procs |-> None]
  /\ release_id = [p \in Procs |-> None]
  /\ release_dir = [p \in Procs |-> None]
  /\ release_temp_dir = [p \in Procs |-> None]
  /\ response = [p \in Procs |-> NoResponse]
  /\ bytes_so_far = [p \in Procs |-> 0]
  /\ archive = [p \in Procs |-> NoArchive]
  /\ extracted = [p \in Procs |-> 0]
  /\ result = [p \in Procs |-> None]
  /\ err = [p \in Procs |-> NoError]
  /\ ops = [p \in Procs |-> NoOps]
  /\ cached0 = [p \in Procs |-> {}]
  /\ fs = <<>>
  /\ uuids = 0
  /\ calls = 0
  /\ issued = <<>>

Init ==
  /\ FetchInit
  /\ id_case = NoIdCase
  /\ dl = NoDownload

Terminal(p) == pc[p] \in {"done", "failed"}

\* the call of p returns path
Return(p, path) ==
  /\ pc' = [pc EXCEPT ![p] = "done"]
  /\ result' = [result EXCEPT ![p] = path]
  /\ err' = err

\* the call of p ends with the exception type(msg)
Raise(p, type, msg) ==
  /\ pc' = [pc EXCEPT ![p] = "failed"]
  /\ err' = [err EXCEPT ![p] = [type |-> type, msg |-> msg]]
  /\ result' = result

Goto(p, line) ==
  /\ pc' = [pc EXCEPT ![p] = line]
  /\ UNCHANGED <<result, err>>

Count(p, what) == ops' = [ops EXCEPT ![p] = [@ EXCEPT ![what] = @ + 1]]

Issue(id) ==
  issued' = [i \in (DOMAIN issued) \cup {id} |-> IF i \in DOMAIN issued THEN issued[i] + (IF i = id THEN 1 ELSE 0) ELSE 1]

(* ------------------------------------------------------------- the actions *)
\* the path override honoured only when no URL override is set
PathOverridden_UrlFirst(e) == e.path # None /\ e.url = None

\* line 29: the path override wins when the variable is set at all
PathOverridden(e) == e.path # None

\* lines 27-35: a process starts a call in environment e; with the path
\* override set the call returns it at once, otherwise it goes on to
\* _get_artifacttool.  The processes are alike, so they start their first
\* calls in the order of their numbers.
get_latest_artifacttool(p, e) ==
  /\ pc[p] \in {"idle", "done", "failed"}
  /\ \A q \in Procs : q < p => pc[q] # "idle"
  /\ calls < MaxCalls
  /\ calls' = calls + 1
  /\ env' = [env EXCEPT ![p] = e]
  /\ release_uri' = [release_uri EXCEPT ![p] = None]
  /\ release_id' = [release_id EXCEPT ![p] = None]
  /\ release_dir' = [release_dir EXCEPT ![p] = None]
  /\ release_temp_dir' = [release_temp_dir EXCEPT ![p] = None]
  /\ response' = [response EXCEPT ![p] = NoResponse]
  /\ bytes_so_far' = [bytes_so_far EXCEPT ![p] = 0]
  /\ archive' = [archive EXCEPT ![p] = NoArchive]
  /\ extracted' = [extracted EXCEPT ![p] = 0]
  /\ ops' = [ops EXCEPT ![p] = NoOps]
  /\ cached0' = [cached0 EXCEPT ![p] = Under(fs, releases_root)]
  /\ err' = [err EXCEPT ![p] = NoError]
  /\ IF PathOverridden(e)
     THEN /\ pc' = [pc EXCEPT ![p] = "done"]
          /\ result' = [result EXCEPT ![p] = e.path]
     ELSE /\ pc' = [pc EXCEPT ![p] = "resolve"]
          /\ result' = [result EXCEPT ![p] = None]
  /\ UNCHANGED pure
  /\ UNCHANGED <<fs, uuids, issued>>

\* "custom_%s" of an identifier drawn once and used for every call
CustomId_Reused(n) == "custom_" \o Uuid4Str(0)

\* line 45: "custom_%s" % str(uuid.uuid4())
CustomId(n) == "custom_" \o Uuid4Str(n)

\* the URL override taken only after a lookup has been made
ResolveOverrideUrl_AfterLookup(p) ==
  /\ pc[p] = "resolve"
  /\ env[p].url # None
  /\ uuids' = uuids + 1
  /\ release_uri' = [release_uri EXCEPT ![p] = env[p].url]
  /\ release_id' = [release_id EXCEPT ![p] = CustomId(uuids + 1)]
  /\ Issue(CustomId(uuids + 1))
  /\ Count(p, "lookup")
  /\ Goto(p, "release_dir")
  /\ UNCHANGED pure
  /\ UNCHANGED <<cached0, env, release_dir, release_temp_dir, response, bytes_so_far, archive,
                 extracted, fs, calls>>

\* lines 42-45: the URL override is the download URI, under a fresh release id
ResolveOverrideUrl(p) ==
  /\ pc[p] = "resolve"
  /\ env[p].url # None
  /\ uuids' = uuids + 1
  /\ release_uri' = [release_uri EXCEPT ![p] = env[p].url]
  /\ release_id' = [release_id EXCEPT ![p] = CustomId(uuids + 1)]
  /\ Issue(CustomId(uuids + 1))
  /\ Goto(p, "release_dir")
  /\ UNCHANGED pure
  /\ UNCHANGED <<cached0, env, release_dir, release_temp_dir, response, bytes_so_far, archive,
                 extracted, ops, fs, calls>>

\* get_clienttool_release returning no release: None, as an empty tuple
NoRelease == <<>>

\* the version the service holds as the current one
CurrentVersion == "1.2.4"

\* what get_clienttool_release(..., version=version) can return: the release of
\* the version asked for, or the current one when none is asked for, as a
\* one-tuple; or None
Answers(version) ==
  {<<r>> : r \in {r \in Releases :
                    r.version = IF version = None THEN CurrentVersion ELSE version}}
  \cup {NoRelease}

\* line 72: (release.uri, self._compute_id(release)) if release is not None else None
_get_current_release(answer) ==
  IF answer # NoRelease THEN <<answer[1].uri, _compute_id(answer[1])>> ELSE NoRelease

\* line 52 with release = None, outside the try of lines 48-51: the unpacking
\* raises
UnpackNone(p) ==
  Raise(p, "TypeError", "cannot unpack non-iterable NoneType object")

\* lines 47-52, 67-72: the lookup returns; its pair is unpacked into release_uri
\* and release_id
Lookup(p, answer) ==
  /\ pc[p] = "resolve"
  /\ env[p].url = None
  /\ answer \in Answers(env[p].version)
  /\ Count(p, "lookup")
  /\ LET release == _get_current_release(answer)
     IN IF release = NoRelease
        THEN /\ UnpackNone(p)
             /\ UNCHANGED <<release_uri, release_id>>
        ELSE /\ release_uri' = [release_uri EXCEPT ![p] = release[1]]
             /\ release_id' = [release_id EXCEPT ![p] = release[2]]
             /\ Goto(p, "release_dir")
  /\ UNCHANGED pure
  /\ UNCHANGED <<cached0, env, release_dir, release_temp_dir, response, bytes_so_far, archive,
                 extracted, fs, uuids, calls, issued>>

\* lines 50-51: any exception of the lookup is wrapped
WrapLookupError(p, ex) == Raise(p, "CLIError", "Failed to find UPack tooling: " \o ex)

\* the releases root made before the lookup is tried
LookupRaises_MkdirFirst(p, ex) ==
  /\ pc[p] = "resolve"
  /\ env[p].url = None
  /\ Count(p, "lookup")
  /\ WrapLookupError(p, ex)
  /\ fs' = Makedirs(fs, releases_root)
  /\ UNCHANGED pure
  /\ UNCHANGED <<cached0, env, release_uri, release_id, release_dir, release_temp_dir, response,
                 bytes_so_far, archive, extracted, uuids, calls, issued>>

\* lines 47-51, 67-71: the connection or the lookup raises ex
LookupRaises(p, ex) ==
  /\ pc[p] = "resolve"
  /\ env[p].url = None
  /\ Count(p, "lookup")
  /\ WrapLookupError(p, ex)
  /\ UNCHANGED pure
  /\ UNCHANGED <<cached0, env, release_uri, release_id, release_dir, release_temp_dir, response,
                 bytes_so_far, archive, extracted, fs, uuids, calls, issued>>

\* lines 119-123: the releases root is made, and the path of release_id under it
\* is the result; oserror: the system refuses the mkdir
_get_release_dir(p, oserror) ==
  LET made == _mkdir_if_not_exist(fs, releases_root, oserror)
  IN /\ fs' = made.fs
     /\ IF made.raised # None
        THEN /\ Raise(p, made.raised, "makedirs " \o releases_root)
             /\ release_dir' = release_dir
        ELSE /\ release_dir' = [release_dir EXCEPT ![p] = PathJoin(releases_root, release_id[p])]
             /\ Goto(p, "exists")

\* line 56
GetReleaseDir(p, oserror) ==
  /\ pc[p] = "release_dir"
  /\ _get_release_dir(p, oserror)
  /\ UNCHANGED pure
  /\ UNCHANGED <<cached0, env, release_uri, release_id, release_temp_dir, response,
                 bytes_so_far, archive, extracted, ops, uuids, calls, issued>>

\* lines 57-59: a release directory that exists is returned as it is
CacheHit(p) ==
  /\ pc[p] = "exists"
  /\ Exists(fs, release_dir[p])
  /\ Return(p, release_dir[p])
  /\ UNCHANGED pure
  /\ UNCHANGED <<locals_kept, fs, uuids, calls, issued>>

\* lines 57, 62-63: otherwise the call goes on to _update_artifacttool
CacheMiss(p) ==
  /\ pc[p] = "exists"
  /\ ~Exists(fs, release_dir[p])
  /\ Goto(p, "get")
  /\ UNCHANGED pure
  /\ UNCHANGED <<locals_kept, fs, uuids, calls, issued>>

\* requests.get tried again after it has failed
GetRaises_Retries(p) ==
  /\ pc[p] = "get"
  /\ Count(p, "get")
  /\ Goto(p, "get")
  /\ UNCHANGED pure
  /\ UNCHANGED <<cached0, env, release_uri, release_id, release_dir, release_temp_dir, response,
                 bytes_so_far, archive, extracted, fs, uuids, calls, issued>>

\* line 80: requests.get cannot reach the server
GetRaises(p) ==
  /\ pc[p] = "get"
  /\ Count(p, "get")
  /\ Raise(p, "ConnectionError", release_uri[p])
  /\ UNCHANGED pure
  /\ UNCHANGED <<cached0, env, release_uri, release_id, release_dir, release_temp_dir, response,
                 bytes_so_far, archive, extracted, fs, uuids, calls, issued>>

\* lines 85-91 on the body of resp: the exception that ends the loop, or None
ReadBody(resp) ==
  LET st == DownloadLoop(LoopStart, resp.chunks, ContentLength(resp.cl).value)
  IN IF st.raised # None THEN st.raised
     ELSE IF resp.broken THEN "ChunkedEncodingError"
     ELSE None

\* the bytes lines 85-91 have read of the body of resp when they end; none when
\* line 81 or 82 has raised before them
BytesRead(resp) ==
  IF ContentLength(resp.cl).raised # None THEN 0
  ELSE DownloadLoop(LoopStart, resp.chunks, ContentLength(resp.cl).value).bytes_so_far

\* lines 80-91: the server answers with resp; the Content-Length header is read
\* and parsed, and the body is read chunk by chunk into memory
GetResponse(p, resp) ==
  /\ pc[p] = "get"
  /\ Count(p, "get")
  /\ response' = [response EXCEPT ![p] = resp]
  /\ bytes_so_far' = [bytes_so_far EXCEPT ![p] = BytesRead(resp)]
  /\ IF ContentLength(resp.cl).raised # None
     THEN Raise(p, ContentLength(resp.cl).raised, "Content-Length")
     ELSE IF ReadBody(resp) # None
     THEN Raise(p, ReadBody(resp), "iter_content")
     ELSE Goto(p, "temp_dir")
  /\ UNCHANGED pure
  /\ UNCHANGED <<cached0, env, release_uri, release_id, release_dir, release_temp_dir, archive,
                 extracted, fs, uuids, calls, issued>>

\* line 96: zipfile.ZipFile(content) reads the archive's directory, finds the
\* body to be arch, and raises on a body that is no archive; line 97 then
\* starts extractall
OpenZip(p, arch) ==
  /\ archive' = [archive EXCEPT ![p] = arch]
  /\ IF ~arch.zipok
     THEN Raise(p, "BadZipFile", "File is not a zip file") /\ ops' = ops
     ELSE /\ Count(p, "extractall")
          /\ Goto(p, IF arch.members = 0 THEN "rename" ELSE "extract")

\* one scratch name for every call
ScratchName_Fixed(n) == "scratch"

\* line 129: str(uuid.uuid4()), the name of the scratch directory
ScratchName(n) == Uuid4Str(n)

\* lines 125-129: the temp root is made, and a path with a fresh name under it
\* is the result; oserror: the system refuses the mkdir
_get_temp_release_dir(p, oserror, arch) ==
  LET made == _mkdir_if_not_exist(fs, releases_temp_root, oserror)
  IN /\ fs' = made.fs
     /\ IF made.raised # None
        THEN /\ Raise(p, made.raised, "makedirs " \o releases_temp_root)
             /\ UNCHANGED <<release_temp_dir, uuids, ops, archive>>
        ELSE /\ uuids' = uuids + 1
             /\ release_temp_dir' =
                  [release_temp_dir EXCEPT ![p] = PathJoin(releases_temp_root, ScratchName(uuids + 1))]
             /\ OpenZip(p, arch)

\* lines 94-97: the scratch path is chosen, the archive opened, and extractall
\* begins
GetTempReleaseDir(p, oserror, arch) ==
  /\ pc[p] = "temp_dir"
  /\ _get_temp_release_dir(p, oserror, arch)
  /\ UNCHANGED pure
  /\ UNCHANGED <<cached0, env, release_uri, release_id, release_dir, response, bytes_so_far,
                 extracted, calls, issued>>

\* extractall(path=release_dir): the archive unpacked where readers look
ExtractPath_InPlace(p) == release_dir[p]

\* line 97: the directory extractall(path=...) writes into
ExtractPath(p) == release_temp_dir[p]

\* line 97: extractall writes the next member
ExtractMember(p) ==
  /\ pc[p] = "extract"
  /\ extracted[p] < archive[p].members
  /\ fs' = ExtractInto(fs, ExtractPath(p), release_uri[p], release_temp_dir[p],
                       archive[p].members, archive[p].hollow)
  /\ extracted' = [extracted EXCEPT ![p] = @ + 1]
  /\ Goto(p, IF extracted[p] + 1 = archive[p].members THEN "rename" ELSE "extract")
  /\ UNCHANGED pure
  /\ UNCHANGED <<cached0, env, release_uri, release_id, release_dir, release_temp_dir, response,
                 bytes_so_far, archive, ops, uuids, calls, issued>>

\* extractall raising and its scratch directory removed again
ExtractRaises_CleansUp(p) ==
  /\ pc[p] = "extract"
  /\ Raise(p, "IOError", "extractall")
  /\ fs' = [q \in (DOMAIN fs) \ {release_temp_dir[p]} |-> fs[q]]
  /\ UNCHANGED pure
  /\ UNCHANGED <<locals_kept, uuids, calls, issued>>

\* line 97: extractall raises before its next member (a damaged member, a full
\* disk); what it has written stays
ExtractRaises(p) ==
  /\ pc[p] = "extract"
  /\ Raise(p, "IOError", "extractall")
  /\ UNCHANGED pure
  /\ UNCHANGED <<locals_kept, fs, uuids, calls, issued>>

\* the release directory returned whether or not the rename has put it there
Rename_ReturnsAnyway(p, replaces) ==
  /\ pc[p] = "rename"
  /\ Count(p, "rename")
  /\ fs' = OsRename(fs, release_temp_dir[p], release_dir[p], replaces).fs
  /\ Return(p, release_dir[p])
  /\ UNCHANGED pure
  /\ UNCHANGED <<cached0, env, release_uri, release_id, release_dir, release_temp_dir, response,
                 bytes_so_far, archive, extracted, uuids, calls, issued>>

\* lines 101, 65: the scratch directory is renamed to the release directory,
\* which the call returns; replaces: the platform's rename replaces an empty
\* directory
Rename(p, replaces) ==
  /\ pc[p] = "rename"
  /\ Count(p, "rename")
  /\ LET moved == OsRename(fs, release_temp_dir[p], release_dir[p], replaces)
     IN /\ fs' = moved.fs
        /\ IF moved.raised # None
           THEN Raise(p, moved.raised, "rename " \o release_temp_dir[p])
           ELSE Return(p, release_dir[p])
  /\ UNCHANGED pure
  /\ UNCHANGED <<cached0, env, release_uri, release_id, release_dir, release_temp_dir, response,
                 bytes_so_far, archive, extracted, uuids, calls, issued>>

Next ==
  \E p \in Procs :
    \/ \E e \in Environments : get_latest_artifacttool(p, e)
    \/ ResolveOverrideUrl(p)
    \/ \E answer \in Answers(env[p].version) : Lookup(p, answer)
    \/ \E ex \in LookupErrors : LookupRaises(p, ex)
    \/ \E oserror \in BOOLEAN : GetReleaseDir(p, oserror)
    \/ CacheHit(p)
    \/ CacheMiss(p)
    \/ GetRaises(p)
    \/ \E resp \in Responses : GetResponse(p, resp)
    \/ \E oserror \in BOOLEAN, arch \in Archives : GetTempReleaseDir(p, oserror, arch)
    \/ ExtractMember(p)
    \/ ExtractRaises(p)
    \/ \E replaces \in BOOLEAN : Rename(p, replaces)

Spec == Init /\ [][Next]_vars

(* ------------------------------------------- the release id, on its own *)
Alphabet == {"a", "_"}

\* the strings of at most n characters
RECURSIVE Strings(_)
Strings(n) ==
  IF n = 0 THEN {""} ELSE Strings(n - 1) \cup {s \o c : s \in Strings(n - 1), c \in Alphabet}

\* the releases whose fields have at most MaxLen characters
ReleaseTuples ==
  [uri : {"https://host/tool.zip"}, name : Strings(MaxLen), rid : Strings(MaxLen),
   version : Strings(MaxLen)]

IdInit ==
  /\ FetchInit
  /\ dl = NoDownload
  /\ \E a \in ReleaseTuples, b \in ReleaseTuples :
       id_case = [NoIdCase EXCEPT !.a = a, !.b = b, !.at = "lookup"]

\* lines 72, 56: each of the two releases gets its id, and the id its directory
ComputeIds ==
  /\ id_case.at = "lookup"
  /\ id_case' = [id_case EXCEPT !.at = "computed",
                                !.id_a = _get_current_release(<<id_case.a>>)[2],
                                !.id_b = _get_current_release(<<id_case.b>>)[2],
                                !.dir_a = PathJoin(releases_root, _get_current_release(<<id_case.a>>)[2]),
                                !.dir_b = PathJoin(releases_root, _get_current_release(<<id_case.b>>)[2])]
  /\ UNCHANGED <<pc, locals, fs, uuids, calls, issued, dl>>

IdNext == ComputeIds

SpecId == IdInit /\ [][IdNext]_vars

(* --------------------------------------------- one download, on its own *)
\* the decimal text of an integer
IntStr(n) == IF n < 0 THEN "-" \o ToString(0 - n) ELSE ToString(n)

\* the Content-Length headers a server sends
Headers == {None, "abc", " 2 "} \cup {IntStr(n) : n \in (0 - 2)..MaxDeclared}

\* the sequences of at most n chunk sizes
RECURSIVE Chunkings(_)
Chunkings(n) ==
  IF n = 0 THEN {<<>>}
  ELSE Chunkings(n - 1) \cup {Append(c, k) : c \in Chunkings(n - 1), k \in 0..MaxChunkLen}

ProgressInit ==
  /\ FetchInit
  /\ id_case = NoIdCase
  /\ \E cl \in Headers, chunks \in Chunkings(MaxChunks) :
       dl = [NoDownload EXCEPT !.cl = cl, !.chunks = chunks, !.at = "headers"]

\* lines 81-82
ReadHeader ==
  /\ dl.at = "headers"
  /\ dl' = IF ContentLength(dl.cl).raised # None
           THEN [dl EXCEPT !.at = "failed", !.st = [@ EXCEPT !.raised = ContentLength(dl.cl).raised]]
           ELSE [dl EXCEPT !.at = "loop", !.content_length = ContentLength(dl.cl).value]
  /\ UNCHANGED <<pc, locals, fs, uuids, calls, issued, id_case>>

\* lines 87-91, the next chunk
NextChunk ==
  /\ dl.at = "loop"
  /\ dl.chunks # <<>>
  /\ LET st == LoopStep(dl.st, Head(dl.chunks), dl.content_length)
     IN dl' = [dl EXCEPT !.st = st, !.chunks = Tail(@),
                         !.at = IF st.raised # None THEN "failed" ELSE "loop"]
  /\ UNCHANGED <<pc, locals, fs, uuids, calls, issued, id_case>>

\* line 87, iter_content is exhausted
EndOfBody ==
  /\ dl.at = "loop"
  /\ dl.chunks = <<>>
  /\ dl' = [dl EXCEPT !.at = "read"]
  /\ UNCHANGED <<pc, locals, fs, uuids, calls, issued, id_case>>

ProgressNext == ReadHeader \/ NextChunk \/ EndOfBody

SpecProgress == ProgressInit /\ [][ProgressNext]_vars

(* ------------------------------------------------------------ properties *)
ReleaseDirs == Under(fs, releases_root)

ScratchDirs == Under(fs, releases_temp_root)

\* p has done something in this step
Stepped(p) ==
  <<pc[p], env[p], release_id[p], release_dir[p], release_temp_dir[p], response[p],
    archive[p], extracted[p], result[p], err[p], ops[p]>>' #
  <<pc[p], env[p], release_id[p], release_dir[p], release_temp_dir[p], response[p],
    archive[p], extracted[p], result[p], err[p], ops[p]>>

\* C1: in every state every directory under releases is fully extracted, and a
\* directory appears under releases only by the rename of a call whose release
\* directory it is.
C1_AtomicPublication ==
  /\ [](\A d \in ReleaseDirs : FullyExtracted(fs[d]))
  /\ [][\A d \in ReleaseDirs' :
          d \notin ReleaseDirs =>
            \E p \in Procs : /\ pc[p] = "rename" /\ pc'[p] = "done"
                             /\ release_dir[p] = d
                             /\ fs'[d] = fs[release_temp_dir[p]]
                             /\ FullyExtracted(fs[release_temp_dir[p]])]_vars

\* C1 witness: a release directory is published while another call for the same
\* release has a partly extracted scratch directory.
C1_Witness ==
  \E p \in Procs, q \in Procs :
    /\ p # q
    /\ pc[p] = "done" /\ ops[p].rename = 1 /\ release_dir[p] \in ReleaseDirs
    /\ release_dir[q] = release_dir[p]
    /\ release_temp_dir[q] \in ScratchDirs
    /\ ~FullyExtracted(fs[release_temp_dir[q]])

\* C2: a call made with the path override set to P is done and has returned
\* exactly P, whatever the URL and version overrides are.
C2_OverridePathReturned ==
  \A p \in Procs :
    env[p].path # None => pc[p] = "done" /\ result[p] = env[p].path /\ err[p] = NoError

\* C2 witness: a call with all three overrides set has returned the path override.
C2_Witness ==
  \E p \in Procs :
    /\ env[p].path # None /\ env[p].url # None /\ env[p].version # None
    /\ pc[p] = "done" /\ result[p] = env[p].path

\* C3: a step of a call made with the path override set changes no directory,
\* draws no identifier, and leaves the call done with no lookup, no GET, no
\* extraction and no rename made.
C3_OverridePathTouchesNothing ==
  [][\A p \in Procs :
       (env'[p].path # None /\ (Stepped(p) \/ calls' # calls)) =>
         /\ fs' = fs /\ uuids' = uuids /\ issued' = issued
         /\ pc'[p] = "done" /\ ops'[p] = NoOps]_vars

\* C3 witness: a call with the path override has returned while release
\* directories and scratch directories exist.
C3_Witness ==
  \E p \in Procs :
    /\ env[p].path # None /\ pc[p] = "done" /\ result[p] = env[p].path
    /\ ReleaseDirs # {} /\ calls >= 2

\* the release directory of the id p has resolved
DirOf(p) == PathJoin(releases_root, release_id[p])

\* p runs without path and URL override, its lookup has answered with a release
\* id, and the directory of that id was there when the call began
CachedAtStart(p) ==
  /\ env[p].path = None /\ env[p].url = None
  /\ release_id[p] # None
  /\ DirOf(p) \in cached0[p]

\* C4, as claimed: a call without path and URL override whose release directory
\* was there when it began makes no network call at all, and returns that
\* directory.
C4_NoNetworkCallAtAll ==
  \A p \in Procs :
    CachedAtStart(p) =>
      /\ ops[p].lookup = 0 /\ ops[p].get = 0
      /\ Terminal(p) => pc[p] = "done" /\ result[p] = DirOf(p)

\* C4, amended: such a call makes the remote lookup, which tells it the release
\* id, and nothing else: no GET, no extraction, no rename; and it ends only by
\* returning that directory.
C4_CachedReleaseNotDownloaded ==
  \A p \in Procs :
    CachedAtStart(p) =>
      /\ ops[p] = [NoOps EXCEPT !.lookup = 1]
      /\ pc[p] \in {"release_dir", "exists", "done"}
      /\ pc[p] = "done" => result[p] = DirOf(p) /\ err[p] = NoError

\* C4 witness: a call has returned a release directory that was there when it
\* began.
C4_Witness ==
  \E p \in Procs : CachedAtStart(p) /\ pc[p] = "done" /\ result[p] = DirOf(p)

\* p runs without path and URL override and its lookup has ended without a
\* release: it raised, or it returned None
LookupFailed(p) ==
  /\ env[p].path = None /\ env[p].url = None
  /\ ops[p].lookup = 1
  /\ release_id[p] = None

WrapPrefix == "Failed to find UPack tooling: "

\* C5: a call whose lookup raises or returns None has failed with the CLIError
\* "Failed to find UPack tooling: <cause>", and has gone on to neither the cache
\* check nor the download.
C5_LookupFailureWrapped ==
  \A p \in Procs :
    LookupFailed(p) =>
      /\ pc[p] = "failed"
      /\ err[p].type = "CLIError"
      /\ Len(err[p].msg) > Len(WrapPrefix)
      /\ SubSeq(err[p].msg, 1, Len(WrapPrefix)) = WrapPrefix
      /\ release_dir[p] = None /\ ops[p].get = 0

ReleaseFields == {"name", "rid", "version"}

\* the fields of the release id in which a and b differ
Differing(a, b) == {f \in ReleaseFields : a[f] # b[f]}

\* C6: two releases with the same name, runtime identifier and version get the
\* same release id and the same release directory, and two releases that differ
\* in exactly one of the three get different ids and directories.
C6_DeterministicCacheKey ==
  id_case.at = "computed" =>
    /\ Differing(id_case.a, id_case.b) = {} =>
         id_case.id_a = id_case.id_b /\ id_case.dir_a = id_case.dir_b
    /\ Cardinality(Differing(id_case.a, id_case.b)) = 1 =>
         id_case.id_a # id_case.id_b /\ id_case.dir_a # id_case.dir_b

\* C6 witness: the ids are computed of two releases that differ in the version
\* alone, one of them with the separator in its name.
C6_Witness ==
  /\ id_case.at = "computed"
  /\ Differing(id_case.a, id_case.b) = {"version"}
  /\ id_case.a.name = "_"
  /\ id_case.id_a # id_case.id_b

\* the release ids a lookup can resolve to
LookupIds == {_compute_id(r) : r \in Releases}

\* p runs with the URL override and has made its release id
UrlOverrideCall(p) == env[p].path = None /\ env[p].url # None /\ release_id[p] # None

\* C7: the release id of a call with the URL override is the id of no other
\* call, earlier or concurrent, and of no lookup; when the call checks the cache
\* its release directory is not there; and once past the check it has issued
\* its GET, so that it never ends by returning a directory it has not renamed
\* into place itself.
C7_UrlOverrideFresh ==
  \A p \in Procs :
    UrlOverrideCall(p) =>
      /\ issued[release_id[p]] = 1
      /\ release_id[p] \notin LookupIds
      /\ \A q \in Procs \ {p} : release_id[q] # release_id[p]
      /\ pc[p] \in {"release_dir", "exists"} => DirOf(p) \notin ReleaseDirs
      /\ (release_dir[p] # None /\ pc[p] \notin {"exists", "get"}) => ops[p].get = 1
      /\ pc[p] = "done" => ops[p].rename = 1 /\ result[p] = DirOf(p)

\* C7 witness: two calls with the same override URL, one after the other, have
\* each downloaded and published a release directory of its own.
C7_Witness ==
  \E p \in Procs :
    /\ UrlOverrideCall(p) /\ pc[p] = "done" /\ ops[p].get = 1
    /\ Cardinality(DOMAIN issued) = 2
    /\ Cardinality(ReleaseDirs) = 2
    /\ \A d \in ReleaseDirs : fs[d].uri = env[p].url

\* p and q race for one release directory: both have missed it in the cache,
\* extracted their archive and tried the rename
Raced(p, q) ==
  /\ p # q
  /\ release_dir[p] # None /\ release_dir[p] = release_dir[q]
  /\ ops[p].rename = 1 /\ ops[q].rename = 1
  /\ extracted[p] > 0 /\ extracted[q] > 0

\* the rename of p has failed
RenameFailed(p) == pc[p] = "failed" /\ err[p].type \in {"OSError", "FileNotFoundError"}

LookupRaisesStep(p) ==
  pc[p] = "resolve" /\ pc'[p] = "failed" /\ err'[p].type = "CLIError"

\* C9: the step in which the lookup raises makes and changes no directory, and
\* the call it ends has made none before: it never asked for its release
\* directory or for a scratch directory, and its first step changed nothing.
C9_LookupErrorCreatesNothing ==
  [][\A p \in Procs :
       /\ LookupRaisesStep(p) =>
            /\ fs' = fs /\ uuids' = uuids
            /\ release_dir'[p] = None /\ release_temp_dir'[p] = None
            /\ ops'[p] = [NoOps EXCEPT !.lookup = 1]
       /\ (calls' # calls /\ pc'[p] = "resolve" /\ Stepped(p)) => fs' = fs]_vars

\* C9 witness: a call has failed on a lookup error and there is no releases
\* root and no temp root.
C9_Witness ==
  \E p \in Procs :
    /\ pc[p] = "failed" /\ err[p].type = "CLIError"
    /\ releases_root \notin DOMAIN fs
    /\ releases_temp_root \notin DOMAIN fs

\* x <= y for two quotients num/den
QuotientLeq(x, y) == (x.num * y.den - y.num * x.den) * (x.den * y.den) <= 0

\* x >= 100 for a quotient num/den
AtLeast100(x) == (x.num - 100 * x.den) * x.den >= 0

\* C10: the values reported during one download never decrease, and a value of
\* 100 or more is reported only when the bytes read are at least the declared
\* content length.
C10_ProgressMonotone ==
  LET progress == dl.st.progress
  IN /\ \A i \in DOMAIN progress, j \in DOMAIN progress :
          i < j => QuotientLeq(progress[i].value, progress[j].value)
     /\ \A i \in DOMAIN progress :
          AtLeast100(progress[i].value) => progress[i].bytes_so_far >= dl.content_length

\* p runs with the URL override and without the path override
UrlOverrideEnv(p) == env[p].path = None /\ env[p].url # None

\* C11: a call with the URL override and without the path override makes no
\* remote lookup, whatever the version override is, and so never fails the way
\* a lookup fails; once resolved its download URI is the override URL itself,
\* and every directory it extracts or returns holds the archive of that URL.
C11_UrlOverrideSkipsLookup ==
  \A p \in Procs :
    UrlOverrideEnv(p) =>
      /\ ops[p].lookup = 0
      /\ err[p].type \notin {"CLIError", "TypeError"}
      /\ pc[p] # "resolve" => release_uri[p] = env[p].url
      /\ release_temp_dir[p] \in ScratchDirs => fs[release_temp_dir[p]].uri = env[p].url
      /\ pc[p] = "done" => result[p] = DirOf(p) /\ fs[result[p]].uri = env[p].url

\* C11 witness: a call with the URL override and a pinned version has
\* downloaded, published and returned the archive of the override URL.
C11_Witness ==
  \E p \in Procs :
    /\ UrlOverrideEnv(p) /\ env[p].version # None
    /\ pc[p] = "done" /\ ops[p].get = 1 /\ ops[p].rename = 1
    /\ fs[result[p]].uri = env[p].url

\* what a failing GET, body read, archive open or extraction raises
AcquisitionErrors ==
  {"ConnectionError", "KeyError", "ValueError", "ZeroDivisionError", "ChunkedEncodingError",
   "BadZipFile", "IOError"}

\* the call of p has failed in its GET, its body read or its extraction
AcquisitionFailed(p) == pc[p] = "failed" /\ err[p].type \in AcquisitionErrors

\* C12: a call that has failed in its GET, its body read or its extraction has
\* tried no rename; its release directory, if it is there, was published from
\* the scratch directory of another call; and the scratch directory it has
\* extracted into is still under temp with the members it wrote.  The failing
\* step itself ends the call with that error and changes no directory.
C12_FailedAcquisition ==
  /\ [](\A p \in Procs :
          AcquisitionFailed(p) =>
            /\ ops[p].rename = 0
            /\ release_dir[p] \in ReleaseDirs => fs[release_dir[p]].by # release_temp_dir[p]
            /\ extracted[p] > 0 =>
                 /\ release_temp_dir[p] \in ScratchDirs
                 /\ fs[release_temp_dir[p]].n = extracted[p])
  /\ [][\A p \in Procs :
          (pc[p] \in {"get", "extract"} /\ pc'[p] = "failed") =>
            /\ err'[p].type \in AcquisitionErrors
            /\ fs' = fs]_vars
  /\ [][\A p \in Procs :
          (pc[p] = "temp_dir" /\ pc'[p] = "failed" /\ err'[p].type = "BadZipFile") =>
            /\ ReleaseDirs' = ReleaseDirs
            /\ ScratchDirs' = ScratchDirs]_vars

\* C12 witness: an extraction has failed after its first member: the scratch
\* directory is under temp, partly extracted, and there is no release directory.
C12_Witness ==
  \E p \in Procs :
    /\ AcquisitionFailed(p) /\ err[p].type = "IOError"
    /\ extracted[p] > 0
    /\ release_temp_dir[p] \in ScratchDirs
    /\ ~FullyExtracted(fs[release_temp_dir[p]])
    /\ release_dir[p] \notin ReleaseDirs

\* C13, as claimed: a step changes, replaces and removes no directory under
\* releases.
C13_NeverReplaced ==
  [][\A d \in ReleaseDirs : d \in ReleaseDirs' /\ fs'[d] = fs[d]]_vars

\* C13, amended: a step removes no directory under releases, and changes none
\* that holds an entry; an empty one changes only by the successful rename of a
\* call for the same release id, which puts its own complete extraction there.
C13_EntryKept ==
  [][\A d \in ReleaseDirs :
       /\ d \in ReleaseDirs'
       /\ fs[d].entries > 0 => fs'[d] = fs[d]
       /\ fs'[d] # fs[d] =>
            \E p \in Procs : /\ pc[p] = "rename" /\ pc'[p] = "done"
                             /\ release_dir[p] = d
                             /\ fs'[d] = fs[release_temp_dir[p]]
                             /\ FullyExtracted(fs'[d])]_vars

\* C13 witness: a rename onto a release directory that holds an entry, and that
\* another call had published, has failed and left it as it was.
C13_Witness ==
  \E q \in Procs :
    /\ pc[q] = "failed" /\ err[q].type = "OSError" /\ ops[q].rename = 1
    /\ release_dir[q] \in ReleaseDirs
    /\ fs[release_dir[q]].entries > 0
    /\ fs[release_dir[q]].by # release_temp_dir[q]
    /\ release_temp_dir[q] \in ScratchDirs

\* the call of p has published its release directory itself
Published(p) ==
  /\ pc[p] = "done" /\ env[p].path = None
  /\ release_dir[p] \in ReleaseDirs
  /\ fs[release_dir[p]].by = release_temp_dir[p]

\* the call of q began after the call of p had published the release directory
\* both resolved to
After(p, q) ==
  /\ p # q
  /\ Published(p)
  /\ release_id[q] = release_id[p]
  /\ release_dir[p] \in cached0[q]

\* C14: the step of a call that is at its cache check while its release
\* directory is there returns that directory and changes nothing: no GET, no
\* scratch name, no rename.  And of two calls for one release of which the
\* second began after the first had published, the first has made one GET, one
\* extraction and one rename, and the second, once done, has returned the same
\* path with no GET, no scratch directory and no rename.
C14_CacheHitReturns ==
  /\ [][\A p \in Procs :
          (pc[p] = "exists" /\ release_dir[p] \in ReleaseDirs /\ Stepped(p)) =>
            /\ pc'[p] = "done" /\ result'[p] = release_dir[p]
            /\ fs' = fs /\ uuids' = uuids
            /\ ops'[p] = ops[p] /\ ops[p].get = 0 /\ ops[p].rename = 0
            /\ release_temp_dir'[p] = None]_vars
  /\ [](\A p \in Procs, q \in Procs :
          After(p, q) =>
            /\ ops[p].get = 1 /\ ops[p].extractall = 1 /\ ops[p].rename = 1
            /\ ops[q].get = 0 /\ ops[q].extractall = 0 /\ ops[q].rename = 0
            /\ release_temp_dir[q] = None
            /\ pc[q] = "done" => result[q] = result[p])

\* C14 witness: a first call on an empty cache has downloaded and published a
\* looked-up release, and a second call begun after it has returned the same
\* path.
C14_Witness ==
  \E p \in Procs, q \in Procs :
    /\ After(p, q)
    /\ cached0[p] = {} /\ env[p].url = None /\ env[q].url = None
    /\ ops[p].lookup = 1 /\ ops[q].lookup = 1
    /\ pc[q] = "done" /\ result[q] = result[p]

\* how far a call at line is: the order of the lines of one call
Rank(line) ==
  CASE line = "idle" -> 0
    [] line = "resolve" -> 1
    [] line = "release_dir" -> 2
    [] line = "exists" -> 3
    [] line = "get" -> 4
    [] line = "temp_dir" -> 5
    [] line = "extract" -> 6
    [] line = "rename" -> 7
    [] line \in {"done", "failed"} -> 8

\* C15: within one call the lookup, the GET, the extraction and the rename are
\* each made at most once; a step of a call never goes back to an earlier
\* line; an exception is raised only by the step that ends the call as failed;
\* and a call that is done or failed moves again only when a new call starts.
C15_ForwardOnly ==
  /\ [](\A p \in Procs :
          /\ \A what \in DOMAIN NoOps : ops[p][what] <= 1
          /\ (err[p] # NoError) <=> (pc[p] = "failed")
          /\ pc[p] = "done" => err[p] = NoError /\ result[p] # None)
  /\ [][\A p \in Procs :
          (Stepped(p) /\ calls' = calls) =>
            /\ ~Terminal(p)
            /\ Rank(pc'[p]) >= Rank(pc[p])
            /\ Rank(pc'[p]) = Rank(pc[p]) => pc[p] = "extract" /\ extracted'[p] = extracted[p] + 1
            /\ \A what \in DOMAIN NoOps : ops'[p][what] >= ops[p][what]]_vars
  /\ [][\A p \in Procs :
          (Stepped(p) /\ calls' # calls) =>
            /\ pc[p] \in {"idle", "done", "failed"}
            /\ ops'[p] = NoOps
            /\ pc'[p] \in {"resolve", "done"}
            /\ pc'[p] = "done" <=> env'[p].path # None]_vars

\* C15 witness: one process has made two calls, and its second has run through
\* lookup, GET, extraction and rename, each once.
C15_Witness ==
  \E p \in Procs :
    /\ calls = 2 /\ \A q \in Procs \ {p} : pc[q] = "idle"
    /\ pc[p] = "done"
    /\ ops[p] = [lookup |-> 1, get |-> 1, extractall |-> 1, rename |-> 1]

\* the scratch names handed out so far
ScratchNames == {PathJoin(releases_temp_root, ScratchName(n)) : n \in 1..uuids}

\* the extraction or the rename of p has failed
ExtractOrRenameFailed(p) ==
  /\ pc[p] = "failed"
  /\ ops[p].extractall = 1
  /\ err[p].type \in {"IOError", "OSError", "FileNotFoundError"}

\* the scratch path a call takes is new: no call has it or had it, and no
\* directory is at it or was renamed from it
FreshScratch ==
  \A p \in Procs :
    (release_temp_dir'[p] # release_temp_dir[p] /\ release_temp_dir'[p] # None) =>
      /\ release_temp_dir'[p] \notin ScratchNames
      /\ release_temp_dir'[p] \notin DOMAIN fs
      /\ \A d \in DOMAIN fs : fs[d].by # release_temp_dir'[p]
      /\ \A q \in Procs \ {p} : release_temp_dir'[q] # release_temp_dir'[p]

MkdirStep(p, line, root) ==
  (pc[p] = line /\ Stepped(p)) =>
    /\ root \in DOMAIN fs => /\ fs' = fs
                             /\ ~(pc'[p] = "failed" /\ err'[p].type = "OSError")
    /\ root \in DOMAIN fs' => ~(pc'[p] = "failed" /\ err'[p].type = "OSError")
    /\ root \notin DOMAIN fs' =>
         /\ pc'[p] = "failed" /\ err'[p].type = "OSError"
         /\ fs' = fs

\* C17: making the releases root and the temp root succeeds when the directory
\* is already there, made by this process or by another; a makedirs that fails
\* and leaves no directory ends the call as failed with its OSError; and so a
\* call that is past either step has its root as a directory.
C17_MkdirIfNotExist ==
  /\ [][\A p \in Procs : /\ MkdirStep(p, "release_dir", releases_root)
                          /\ MkdirStep(p, "temp_dir", releases_temp_root)]_vars
  /\ [](\A p \in Procs :
          /\ release_dir[p] # None => releases_root \in DOMAIN fs
          /\ release_temp_dir[p] # None => releases_temp_root \in DOMAIN fs)

\* C17 witness: two calls are past the making of the releases root at the same
\* time, so the second found it made by the first; and the temp root is there
\* before the second asks for it.
C17_Witness ==
  \E p \in Procs, q \in Procs :
    /\ p # q
    /\ release_dir[p] # None /\ release_dir[q] # None
    /\ release_temp_dir[p] # None /\ pc[q] = "temp_dir"
    /\ releases_temp_root \in DOMAIN fs

\* requests.get has answered the call of p
Answered(p) == ops[p].get = 1 /\ response[p] # NoResponse

\* the response p got has no Content-Length header, or one with a character
\* that is no digit, sign or blank
NoNumericLength(p) ==
  \/ response[p].cl = None
  \/ \E i \in 1..Len(response[p].cl) :
       /\ ~IsDigit(CharAt(response[p].cl, i))
       /\ CharAt(response[p].cl, i) \notin {" ", "+", "-"}

\* C18: a call whose response has no Content-Length header or a non-numeric
\* one has failed with the KeyError or ValueError of lines 81-82; it has read
\* no byte of the body, taken no scratch path, opened no archive and renamed
\* nothing, and it has returned nothing.  The step that fails changes no
\* directory.
C18_MalformedLengthFails ==
  /\ [](\A p \in Procs :
          (Answered(p) /\ NoNumericLength(p)) =>
            /\ pc[p] = "failed"
            /\ err[p].type = IF response[p].cl = None THEN "KeyError" ELSE "ValueError"
            /\ bytes_so_far[p] = 0
            /\ release_temp_dir[p] = None
            /\ ops[p].extractall = 0 /\ ops[p].rename = 0
            /\ result[p] = None)
  /\ [][\A p \in Procs :
          (pc[p] = "get" /\ Answered(p)' /\ NoNumericLength(p)') =>
            /\ fs' = fs /\ uuids' = uuids]_vars

\* C18 witness: one call has failed on a response without Content-Length and
\* another on one with a non-numeric Content-Length, both with a body of at
\* least one chunk, and there is no scratch directory and no release directory.
C18_Witness ==
  \E p \in Procs, q \in Procs :
    /\ Answered(p) /\ response[p].cl = None /\ err[p].type = "KeyError"
    /\ Answered(q) /\ response[q].cl = "abc" /\ err[q].type = "ValueError"
    /\ Len(response[p].chunks) > 0 /\ Len(response[q].chunks) > 0
    /\ ScratchDirs = {} /\ ReleaseDirs = {}

\* the step in which the call of p, made without the path override, returns
Returns(p) == pc[p] # "done" /\ pc'[p] = "done" /\ env'[p].path = None

\* C19: the step in which a call without the path override returns, returns
\* the release directory of the id the call resolved; after the step that
\* directory is there and fully extracted; and the call either found it at its
\* cache check, having downloaded nothing, or has put it there by its own
\* rename of its own scratch directory.
C19_ReturnsPublishedDir ==
  [][\A p \in Procs :
       Returns(p) =>
         /\ release_id[p] # None
         /\ result'[p] = PathJoin(releases_root, release_id[p])
         /\ result'[p] \in ReleaseDirs'
         /\ FullyExtracted(fs'[result'[p]])
         /\ \/ /\ pc[p] = "exists" /\ result'[p] \in ReleaseDirs
               /\ fs' = fs /\ ops'[p].get = 0 /\ ops'[p].rename = 0
            \/ /\ pc[p] = "rename" /\ ops'[p].rename = 1
               /\ release_temp_dir[p] \in ScratchDirs
               /\ fs'[result'[p]] = fs[release_temp_dir[p]]
               /\ release_temp_dir[p] \notin DOMAIN fs']_vars

\* C19 witness: one call has returned the directory it published, and another,
\* begun before that directory was there, has found it at its cache check and
\* returned it too.
C19_Witness ==
  \E p \in Procs, q \in Procs :
    /\ p # q
    /\ pc[p] = "done" /\ env[p].path = None /\ ops[p].rename = 1
    /\ result[p] = DirOf(p) /\ fs[result[p]].by = release_temp_dir[p]
    /\ pc[q] = "done" /\ env[q].path = None /\ ops[q].get = 0
    /\ result[q] = result[p]
    /\ result[q] \notin cached0[q]

\* C20: two releases that differ in their name, runtime identifier or version
\* get different release ids and so different release directories, whatever
\* the fields hold, the separator "_" included.
C20_DistinctTuplesDistinctIds ==
  (id_case.at = "computed" /\ Differing(id_case.a, id_case.b) # {}) =>
    /\ id_case.id_a # id_case.id_b
    /\ id_case.dir_a # id_case.dir_b

====
